---------------------------- MODULE Spec2Model ----------------------------
(***************************************************************************)
(* A model of awaur's paginator: the PaginatedStream state machine         *)
(* (src/src/paginator.rs) driven by a PaginationDelegate.  Two delegates   *)
(* are modelled: one that stores the offset it is given, as the trait's    *)
(* documentation describes, and the example's IssueSearchDelegate          *)
(* (src/examples/pagination_example/src/github.rs), which keeps a page     *)
(* index and jumps to a past-the-end page after a short page.              *)
(*                                                                         *)
(* One action models one whole call of poll_next, from the mem::replace    *)
(* that takes the state to the value returned.  The remote side is the     *)
(* action Respond: the answer to the request a running next_page made.     *)
(***************************************************************************)
EXTENDS Integers, Sequences, FiniteSets, TLC

VARIABLES
    state,      \* the PaginatedStream variant between calls
    delegate,   \* the PaginationDelegate, wherever the variant keeps it
    items,      \* ReadyStateValue.items, the buffer of the Ready variant
    future,     \* the boxed future of the Pending variant
    woken,      \* the consumer's waker has been woken since its last poll
    source,     \* what the remote side answers: anything, or a script
    out,        \* history: every Poll::Ready value poll_next returned
    lastRet,    \* history: what the last poll_next call returned
    pages,      \* history: the pages of the fetches that resolved Ok
    log,        \* history: the delegate's methods, in the order called
    nCreated,   \* history: futures created by the Request branch
    nFinished,  \* history: futures that resolved (polled to Ready)
    idle,       \* history: polls in a row that found the future not ready
    serde       \* the value a serde_with adapter is applied to, and what it gave

vars == <<state, delegate, items, future, woken, source, out, lastRet,
          pages, log, nCreated, nFinished, idle, serde>>

---------------------------------------------------------------------------
(* Bounds of the model. *)

\* the longest page a fetch returns
MaxPageLen == 3
\* futures created in one behaviour of Spec
MaxFetches == 3
\* the largest per_page of an IssueSearchDelegate in Spec
MaxPerPage == 2
\* end-of-sequence results recorded after the stream closed
MaxClosedPulls == 4
\* distinct error values a fetch may fail with
MaxError == 2
\* polls in a row of a future that is not ready
MaxIdlePolls == 3

\* usize::MAX of a 16-bit target; every usize computation is checked
\* against it
UsizeMax == 65535

\* Option<usize>: None is the empty sequence, Some(x) is <<x>>
None == << >>
Some(x) == <<x>>

\* faulty variant: an absent total counts as a total of 0
UnwrapOrZero(opt, default) == IF opt = None THEN 0 ELSE opt[1]

\* Option::unwrap_or
UnwrapOr(opt, default) == IF opt = None THEN default ELSE opt[1]

---------------------------------------------------------------------------
(* Values returned by poll_next. *)

RetOk(v)     == [t |-> "Ok", v |-> v]
RetErr(e)    == [t |-> "Err", v |-> e]
RetNone      == [t |-> "None", v |-> 0]
RetPending   == [t |-> "Pending", v |-> 0]
\* a panic, with the line of paginator.rs that raised it
RetPanic(l)  == [t |-> "Panic", v |-> l]
NoRet        == [t |-> "NotPolled", v |-> 0]

---------------------------------------------------------------------------
(* The delegates. *)

\* a delegate that keeps the offset it is given, as the documentation of
\* PaginationDelegate::offset and set_offset asks of an implementation
StoredDelegate ==
    [kind |-> "Stored", off |-> 0, per_page |-> 1, page |-> 0, total_count |-> None]

\* IssueSearchDelegate::new over IssueSearchParams {per_page, page: 0}
IssueSearchDelegate(per_page) ==
    [kind |-> "IssueSearch", off |-> 0, per_page |-> per_page, page |-> 0,
     total_count |-> None]

\* the delegate after the variant that held it was dropped
NoDelegate ==
    [kind |-> "Dropped", off |-> 0, per_page |-> 1, page |-> 0, total_count |-> None]

\* PaginationDelegate::offset
offset(d) ==
    IF d.kind = "Stored" THEN d.off ELSE d.per_page * d.page

\* faulty variant: the page is the quotient whatever the remainder
set_offsetFloor(d, value) ==
    IF d.kind = "Stored"
    THEN [d EXCEPT !.off = value]
    ELSE [d EXCEPT !.page = value \div d.per_page]

\* PaginationDelegate::set_offset
set_offset(d, value) ==
    IF d.kind = "Stored"
    THEN [d EXCEPT !.off = value]
    ELSE IF value % d.per_page = 0
         THEN [d EXCEPT !.page = value \div d.per_page]
         ELSE [d EXCEPT !.page = UsizeMax \div d.per_page]

\* PaginationDelegate::total_items
total_items(d) == d.total_count

\* faulty variant: only the first answer's total is kept
next_page_okFirst(d, total) ==
    IF d.total_count = None THEN [d EXCEPT !.total_count = total] ELSE d

\* the effect on the delegate of a next_page that returns Ok
next_page_ok(d, total) == [d EXCEPT !.total_count = total]

\* the effect on the delegate of a next_page that returns Err: `?` returns
\* before total_count is assigned
next_page_err(d) == d

---------------------------------------------------------------------------
(* The remote side: what a request made by next_page is answered with. *)

\* Result<Vec<Item>, Error> of next_page, with the total the answer carries:
\* a page of n items, or the error err
OkResp(n, total) == [ok |-> TRUE, n |-> n, total |-> total, err |-> 0]
ErrResp(e)       == [ok |-> FALSE, n |-> 0, total |-> None, err |-> e]
NoResp           == [ok |-> FALSE, n |-> 0, total |-> None, err |-> 0]

\* the totals an answer may carry: below, at and above the offsets the
\* bounds reach, and the largest usize
TotalChoices == {0, 2, 4, UsizeMax}

\* IssueSearchDelegate::next_page always stores Some(total_count); a
\* delegate of another kind may also keep reporting None
TotalOptions(d) ==
    {Some(t) : t \in TotalChoices} \cup (IF d.kind = "Stored" THEN {None} ELSE {})

\* a remote side that may answer anything
FreeSource == [scripted |-> FALSE, lens |-> << >>, total |-> None]

\* the scenario of the documentation: total 25 served in pages of 10, 10, 5
ScenarioSource == [scripted |-> TRUE, lens |-> <<10, 10, 5>>, total |-> Some(25)]
ScenarioPerPage == 10

\* a remote side that keeps one total and never answers with an empty page
FixedSource(T) == [scripted |-> FALSE, lens |-> << >>, total |-> Some(T)]

\* calls of next_page so far
NextPageCalls == Cardinality({i \in DOMAIN log : log[i].op = "next_page"})

\* the answers the k-th call of next_page may get
Responses(d, k) ==
    IF source.scripted
    THEN IF k <= Len(source.lens)
         THEN {OkResp(source.lens[k], source.total)}
         ELSE {}
    ELSE IF source.total # None
         THEN {OkResp(n, source.total) : n \in 1..MaxPageLen}
              \cup {ErrResp(e) : e \in 1..MaxError}
         ELSE {OkResp(n, t) : n \in 0..MaxPageLen, t \in TotalOptions(d)}
              \cup {ErrResp(e) : e \in 1..MaxError}

\* futures one behaviour may create
FetchCap ==
    IF source.scripted THEN Len(source.lens) + 1
    ELSE IF source.total # None THEN source.total[1] + 1
    ELSE MaxFetches

RECURSIVE Flatten(_)
\* P1 ++ P2 ++ ... ++ Pn
Flatten(ps) == IF ps = << >> THEN << >> ELSE Head(ps) \o Flatten(Tail(ps))

\* the items of a page of n items: the remote side numbers the items it
\* serves 1, 2, 3, ... so that any two served items differ
FreshPage(n) == [i \in 1..n |-> Len(Flatten(pages)) + i]

---------------------------------------------------------------------------
(* The future of the Pending variant: the async block of the Request       *)
(* branch.  Created: not polled yet, next_page not called.  Running:       *)
(* next_page is awaiting its request.  Answered: the answer r arrived and  *)
(* the next poll resolves the future with it.                              *)

NoFuture      == [st |-> "None", r |-> NoResp]
CreatedFuture == [st |-> "Created", r |-> NoResp]
RunningFuture == [st |-> "Running", r |-> NoResp]
AnsweredFuture(r) == [st |-> "Answered", r |-> r]

Suspended   == [ready |-> FALSE, r |-> NoResp]
Resolved(r) == [ready |-> TRUE, r |-> r]

\* future.as_mut().poll(ctx): what polling the future now may give.  The
\* first poll calls next_page, which may suspend or be answered at once.
FuturePoll ==
    CASE future.st = "Created" ->
            {Suspended} \cup {Resolved(r) : r \in Responses(delegate, NextPageCalls + 1)}
      [] future.st = "Running" -> {Suspended}
      [] future.st = "Answered" -> {Resolved(future.r)}
      [] OTHER -> {}

LogEntry(op, v) == [op |-> op, v |-> v]

\* the log after the future was polled: its first poll calls next_page
LogFuturePoll ==
    IF future.st = "Created"
    THEN Append(log, LogEntry("next_page", offset(delegate)))
    ELSE log

---------------------------------------------------------------------------
(* Pieces of poll_next. *)

\* faulty variant: the offset advanced by the one item handed out, not by the page
NextOffsetConsumed(d, n) == offset(d) + 1

\* delegate.offset() + items.len(), the argument of set_offset
NextOffset(d, n) == offset(d) + n

\* the sum as a release build computes it: wrapped to the width of usize
WrapUsize(v) == v % (UsizeMax + 1)

\* the delegate's total changed since the last page was taken over, and the
\* stream has not read it since
TotalDrifted == log # << >> /\ log[Len(log)].op = "total_changed"

\* the total the delegate reported before that change
CachedTotal == log[Len(log) - 1].v

\* faulty variant: the total is the one reported when the page was fetched
ReachedTotalCached(d) ==
    offset(d) >= (IF TotalDrifted THEN CachedTotal ELSE UnwrapOr(total_items(d), UsizeMax))

\* faulty variant: > where >= is meant
ReachedTotalStrict(d) == offset(d) > UnwrapOr(total_items(d), UsizeMax)

\* delegate.offset() >= delegate.total_items().unwrap_or(usize::MAX)
ReachedTotal(d) == offset(d) >= UnwrapOr(total_items(d), UsizeMax)

\* faulty variant: pop_back where pop_front is meant
PopBackItem(q) == q[Len(q)]

\* VecDeque::pop_front on a buffer that holds an item: the item, the rest
PopFrontItem(q) == Head(q)
PopFrontRest(q) == Tail(q)

\* faulty variant: the Request branch polls the future it has just boxed
RequestBranchPolled ==
    /\ nCreated < FetchCap
    /\ state' = "Pending"
    /\ future' = RunningFuture
    /\ nCreated' = nCreated + 1
    /\ woken' = TRUE
    /\ lastRet' = RetPending
    /\ idle' = 0

\* the Request branch: box the async block, wake the caller, Poll::Pending
RequestBranch ==
    /\ nCreated < FetchCap
    /\ state' = "Pending"
    /\ future' = CreatedFuture
    /\ nCreated' = nCreated + 1
    /\ woken' = TRUE
    /\ lastRet' = RetPending
    /\ idle' = 0

\* the reads of the delegate in the None arm of the Ready branch
LogTotalCheck ==
    log \o << LogEntry("offset", offset(delegate)),
              LogEntry("total_items", UnwrapOr(total_items(delegate), UsizeMax)) >>

---------------------------------------------------------------------------
(* poll_next, one action for each way through it. *)

\* state Request: start a fetch
PollRequest ==
    /\ state = "Request"
    /\ RequestBranch
    /\ UNCHANGED <<delegate, items, source, serde, out, pages, log, nFinished>>

\* faulty variant: a pull that finds the future not ready calls next_page anew
PollPendingStillRefetch ==
    /\ state = "Pending"
    /\ Suspended \in FuturePoll
    /\ idle < MaxIdlePolls
    /\ idle' = idle + 1
    /\ future' = RunningFuture
    /\ log' = Append(log, LogEntry("next_page", offset(delegate)))
    /\ woken' = FALSE
    /\ lastRet' = RetPending
    /\ UNCHANGED <<state, delegate, items, source, serde, out, pages, nCreated, nFinished>>

\* state Pending, the future is not ready
PollPendingStill ==
    /\ state = "Pending"
    /\ Suspended \in FuturePoll
    /\ idle < MaxIdlePolls
    /\ idle' = idle + 1
    /\ future' = RunningFuture
    /\ log' = LogFuturePoll
    /\ woken' = FALSE
    /\ lastRet' = RetPending
    /\ UNCHANGED <<state, delegate, items, source, serde, out, pages, nCreated, nFinished>>

\* state Pending, the future resolves to Ok with a page that holds an item.
\* A sum beyond usize::MAX wraps in a build without overflow checks.
PollPendingOk ==
    /\ state = "Pending"
    /\ \E o \in FuturePoll :
          /\ o.ready /\ o.r.ok /\ o.r.n > 0
          /\ LET d1   == next_page_ok(delegate, o.r.total)
                 arg  == WrapUsize(NextOffset(d1, o.r.n))
                 page == FreshPage(o.r.n)
             IN  /\ delegate' = set_offset(d1, arg)
                 /\ items' = PopFrontRest(page)
                 /\ out' = Append(out, RetOk(PopFrontItem(page)))
                 /\ lastRet' = RetOk(PopFrontItem(page))
                 /\ pages' = Append(pages, page)
                 /\ log' = LogFuturePoll \o << LogEntry("offset", offset(d1)),
                                               LogEntry("set_offset", arg) >>
    /\ state' = "Ready"
    /\ future' = NoFuture
    /\ nFinished' = nFinished + 1
    /\ idle' = 0
    /\ woken' = FALSE
    /\ UNCHANGED <<source, serde, nCreated>>

\* state Pending, the future resolves to Ok and the sum is beyond
\* usize::MAX: a build with overflow checks panics at the addition, after
\* the state was replaced by Indeterminate
PollPendingOverflow ==
    /\ state = "Pending"
    /\ \E o \in FuturePoll :
          /\ o.ready /\ o.r.ok
          /\ LET d1 == next_page_ok(delegate, o.r.total)
             IN  /\ NextOffset(d1, o.r.n) > UsizeMax
                 /\ pages' = Append(pages, FreshPage(o.r.n))
                 /\ log' = Append(LogFuturePoll, LogEntry("offset", offset(d1)))
    /\ state' = "Indeterminate"
    /\ delegate' = NoDelegate
    /\ items' = << >>
    /\ future' = NoFuture
    /\ nFinished' = nFinished + 1
    /\ idle' = 0
    /\ woken' = FALSE
    /\ lastRet' = RetPanic(171)
    /\ UNCHANGED <<source, serde, out, nCreated>>

\* state Pending, the future resolves to Ok with an empty page:
\* pop_front().unwrap() panics, after set_offset and after the state was
\* replaced by Indeterminate
PollPendingEmpty ==
    /\ state = "Pending"
    /\ \E o \in FuturePoll :
          /\ o.ready /\ o.r.ok /\ o.r.n = 0
          /\ LET d1 == next_page_ok(delegate, o.r.total)
             IN  /\ NextOffset(d1, 0) <= UsizeMax
                 /\ log' = LogFuturePoll \o
                             << LogEntry("offset", offset(d1)),
                                LogEntry("set_offset", NextOffset(d1, 0)) >>
    /\ pages' = Append(pages, << >>)
    /\ state' = "Indeterminate"
    /\ delegate' = NoDelegate
    /\ items' = << >>
    /\ future' = NoFuture
    /\ nFinished' = nFinished + 1
    /\ idle' = 0
    /\ woken' = FALSE
    /\ lastRet' = RetPanic(175)
    /\ UNCHANGED <<source, serde, out, nCreated>>

\* faulty variant: the error is forwarded but the state is put back to Pending
PollPendingErrStay ==
    /\ state = "Pending"
    /\ \E o \in FuturePoll :
          /\ o.ready /\ ~o.r.ok
          /\ out' = Append(out, RetErr(o.r.err))
          /\ lastRet' = RetErr(o.r.err)
          /\ future' = AnsweredFuture(o.r)
    /\ log' = LogFuturePoll
    /\ idle' = 0
    /\ woken' = FALSE
    /\ UNCHANGED <<state, delegate, items, source, serde, pages, nCreated, nFinished>>

\* faulty variant: the error is replaced by one fixed value before it is forwarded
PollPendingErrMapped ==
    /\ state = "Pending"
    /\ \E o \in FuturePoll :
          /\ o.ready /\ ~o.r.ok
          /\ out' = Append(out, RetErr(1))
          /\ lastRet' = RetErr(1)
    /\ log' = LogFuturePoll
    /\ state' = "Closed"
    /\ delegate' = NoDelegate
    /\ future' = NoFuture
    /\ nFinished' = nFinished + 1
    /\ idle' = 0
    /\ woken' = FALSE
    /\ UNCHANGED <<items, source, serde, pages, nCreated>>

\* faulty variant: the error is swallowed and the stream goes on with an empty
\* buffer
PollPendingErrSwallowed ==
    /\ state = "Pending"
    /\ \E o \in FuturePoll :
          /\ o.ready /\ ~o.r.ok
          /\ lastRet' = RetPending
    /\ log' = LogFuturePoll
    /\ state' = "Ready"
    /\ future' = NoFuture
    /\ nFinished' = nFinished + 1
    /\ idle' = 0
    /\ woken' = TRUE
    /\ UNCHANGED <<delegate, items, source, serde, out, pages, nCreated>>

\* state Pending, the future resolves to Err
PollPendingErr ==
    /\ state = "Pending"
    /\ \E o \in FuturePoll :
          /\ o.ready /\ ~o.r.ok
          /\ out' = Append(out, RetErr(o.r.err))
          /\ lastRet' = RetErr(o.r.err)
    /\ log' = LogFuturePoll
    /\ state' = "Closed"
    /\ delegate' = NoDelegate
    /\ future' = NoFuture
    /\ nFinished' = nFinished + 1
    /\ idle' = 0
    /\ woken' = FALSE
    /\ UNCHANGED <<items, source, serde, pages, nCreated>>

\* faulty variant: the pull that empties the buffer creates the next future at
\* once and keeps it beside the Ready state
PollReadySomePrefetch ==
    /\ state = "Ready"
    /\ items # << >>
    /\ items' = PopFrontRest(items)
    /\ out' = Append(out, RetOk(PopFrontItem(items)))
    /\ lastRet' = RetOk(PopFrontItem(items))
    /\ woken' = FALSE
    /\ IF PopFrontRest(items) = << >> /\ nCreated < FetchCap
       THEN future' = CreatedFuture /\ nCreated' = nCreated + 1
       ELSE UNCHANGED <<future, nCreated>>
    /\ UNCHANGED <<state, delegate, source, serde, pages, log, nFinished, idle>>

\* faulty variant: the pull that empties the buffer goes on to the Request branch
\* in the same call and returns the item
PollReadySomeEager ==
    /\ state = "Ready"
    /\ items # << >>
    /\ items' = PopFrontRest(items)
    /\ out' = Append(out, RetOk(PopFrontItem(items)))
    /\ lastRet' = RetOk(PopFrontItem(items))
    /\ woken' = FALSE
    /\ idle' = 0
    /\ IF PopFrontRest(items) = << >> /\ nCreated < FetchCap
       THEN state' = "Pending" /\ future' = CreatedFuture /\ nCreated' = nCreated + 1
       ELSE UNCHANGED <<state, future, nCreated>>
    /\ UNCHANGED <<delegate, source, serde, pages, log, nFinished>>

\* faulty variant: the total is checked before an item is handed out, and the
\* rest of the page is dropped once the offset reached it
PollReadySomeTruncating ==
    /\ state = "Ready"
    /\ items # << >>
    /\ IF ReachedTotal(delegate)
       THEN /\ state' = "Closed"
            /\ delegate' = NoDelegate
            /\ items' = << >>
            /\ out' = Append(out, RetNone)
            /\ lastRet' = RetNone
            /\ log' = LogTotalCheck
       ELSE /\ items' = PopFrontRest(items)
            /\ out' = Append(out, RetOk(PopFrontItem(items)))
            /\ lastRet' = RetOk(PopFrontItem(items))
            /\ UNCHANGED <<state, delegate, log>>
    /\ woken' = FALSE
    /\ UNCHANGED idle
    /\ UNCHANGED <<future, source, serde, pages, nCreated, nFinished>>

\* faulty variant: the offset is advanced by each item handed out of the buffer
PollReadySomeCounting ==
    /\ state = "Ready"
    /\ items # << >>
    /\ items' = PopFrontRest(items)
    /\ out' = Append(out, RetOk(PopFrontItem(items)))
    /\ lastRet' = RetOk(PopFrontItem(items))
    /\ delegate' = set_offset(delegate, WrapUsize(offset(delegate) + 1))
    /\ log' = log \o << LogEntry("offset", offset(delegate)),
                         LogEntry("set_offset", WrapUsize(offset(delegate) + 1)) >>
    /\ woken' = FALSE
    /\ UNCHANGED idle
    /\ UNCHANGED <<state, future, source, serde, pages, nCreated, nFinished>>

\* state Ready, the buffer holds an item
PollReadySome ==
    /\ state = "Ready"
    /\ items # << >>
    /\ items' = PopFrontRest(items)
    /\ out' = Append(out, RetOk(PopFrontItem(items)))
    /\ lastRet' = RetOk(PopFrontItem(items))
    /\ woken' = FALSE
    /\ UNCHANGED idle
    /\ UNCHANGED <<state, delegate, future, source, serde, pages, log, nCreated, nFinished>>

\* state Ready, the buffer is empty and the offset reached the total
PollReadyClose ==
    /\ state = "Ready"
    /\ items = << >>
    /\ ReachedTotal(delegate)
    /\ log' = LogTotalCheck
    /\ state' = "Closed"
    /\ delegate' = NoDelegate
    /\ out' = Append(out, RetNone)
    /\ lastRet' = RetNone
    /\ woken' = FALSE
    /\ UNCHANGED idle
    /\ UNCHANGED <<items, future, source, serde, pages, nCreated, nFinished>>

\* faulty variant: the pull sets Request and returns Poll::Pending without running
\* the Request branch
PollReadyRequestDeferred ==
    /\ state = "Ready"
    /\ items = << >>
    /\ ~ReachedTotal(delegate)
    /\ log' = LogTotalCheck
    /\ state' = "Request"
    /\ woken' = TRUE
    /\ lastRet' = RetPending
    /\ idle' = 0
    /\ UNCHANGED <<delegate, items, future, source, serde, out, pages, nCreated, nFinished>>

\* faulty variant: the next fetch starts while items are buffered, and the
\* buffer is discarded
PollReadyRequestEarly ==
    /\ state = "Ready"
    /\ ~ReachedTotal(delegate)
    /\ log' = LogTotalCheck
    /\ RequestBranch
    /\ items' = << >>
    /\ UNCHANGED <<delegate, source, serde, out, pages, nFinished>>

\* state Ready, the buffer is empty and the offset is below the total:
\* set Request and run the Request branch in the same call
PollReadyRequest ==
    /\ state = "Ready"
    /\ items = << >>
    /\ ~ReachedTotal(delegate)
    /\ log' = LogTotalCheck
    /\ RequestBranch
    /\ UNCHANGED <<delegate, items, source, serde, out, pages, nFinished>>

\* end-of-sequence results in one behaviour
NoneCount == Cardinality({i \in DOMAIN out : out[i].t = "None"})

\* faulty variant: a closed stream answers Poll::Pending
PollClosedPending ==
    /\ state = "Closed"
    /\ lastRet # RetPending
    /\ lastRet' = RetPending
    /\ woken' = FALSE
    /\ UNCHANGED <<state, delegate, items, future, source, serde, out, pages, log,
                   nCreated, nFinished, idle>>

\* state Closed
PollClosed ==
    /\ state = "Closed"
    /\ NoneCount < MaxClosedPulls
    /\ out' = Append(out, RetNone)
    /\ lastRet' = RetNone
    /\ woken' = FALSE
    /\ UNCHANGED idle
    /\ UNCHANGED <<state, delegate, items, future, source, serde, pages, log, nCreated, nFinished>>

\* state Indeterminate, left by a call that panicked: unreachable!()
PollIndeterminate ==
    /\ state = "Indeterminate"
    /\ lastRet' = RetPanic(249)
    /\ woken' = FALSE
    /\ UNCHANGED idle
    /\ UNCHANGED <<state, delegate, items, future, source, serde, out, pages, log,
                   nCreated, nFinished>>

\* the remote side answers the request of the running next_page, which
\* wakes the waker the last poll left with the future
Respond ==
    /\ future.st = "Running"
    /\ \E r \in Responses(delegate, NextPageCalls) : future' = AnsweredFuture(r)
    /\ woken' = TRUE
    /\ UNCHANGED idle
    /\ UNCHANGED <<state, delegate, items, source, serde, out, lastRet, pages, log,
                   nCreated, nFinished>>

\* one call of poll_next
PollNext ==
    \/ PollRequest
    \/ PollPendingStill
    \/ PollPendingOk
    \/ PollPendingOverflow
    \/ PollPendingEmpty
    \/ PollPendingErr
    \/ PollReadySome
    \/ PollReadyClose
    \/ PollReadyRequest
    \/ PollClosed
    \/ PollIndeterminate

---------------------------------------------------------------------------
(* The subject of a serde_with adapter: the values handed to serialize,    *)
(* the strings it wrote or deserialize is given, and what deserialize      *)
(* returned.  origin tells the strings serialize wrote from strings that   *)
(* come from elsewhere.                                                    *)

NoResult      == [ok |-> FALSE, values |-> << >>]
OkResult(vs)  == [ok |-> TRUE, values |-> vs]
ErrResult     == [ok |-> FALSE, values |-> << >>]

\* no adapter is in use
NoSerde ==
    [stage |-> "idle", T |-> "u8", origin |-> "none", values |-> << >>,
     strings |-> << >>, result |-> NoResult]

---------------------------------------------------------------------------
(* The specifications. *)

\* faulty variant: construction already boxes the future of the first fetch
InitStreamEager ==
    /\ state = "Pending"
    /\ items = << >>
    /\ future = CreatedFuture
    /\ woken = TRUE
    /\ out = << >>
    /\ lastRet = NoRet
    /\ pages = << >>
    /\ log = << >>
    /\ nCreated = 1
    /\ nFinished = 0
    /\ idle = 0

\* PaginatedStream::from(delegate): the Request variant
InitStream ==
    /\ state = "Request"
    /\ items = << >>
    /\ future = NoFuture
    /\ woken = TRUE
    /\ out = << >>
    /\ lastRet = NoRet
    /\ pages = << >>
    /\ log = << >>
    /\ nCreated = 0
    /\ nFinished = 0
    /\ idle = 0

Init ==
    /\ InitStream
    /\ source = FreeSource
    /\ serde = NoSerde
    /\ delegate \in {StoredDelegate} \cup {IssueSearchDelegate(p) : p \in 1..MaxPerPage}

Next ==
    \/ PollRequest
    \/ PollPendingStill
    \/ PollPendingOk
    \/ PollPendingOverflow
    \/ PollPendingEmpty
    \/ PollPendingErr
    \/ PollReadySome
    \/ PollReadyClose
    \/ PollReadyRequest
    \/ PollClosed
    \/ PollIndeterminate
    \/ Respond

Spec == Init /\ [][Next]_vars

\* the scenario: page size 10, total 25, pages of 10, 10 and 5 items
InitScenario ==
    /\ InitStream
    /\ source = ScenarioSource
    /\ serde = NoSerde
    /\ delegate \in {StoredDelegate, IssueSearchDelegate(ScenarioPerPage)}

NextScenario ==
    \/ PollRequest
    \/ PollPendingStill
    \/ PollPendingOk
    \/ PollReadySome
    \/ PollReadyClose
    \/ PollReadyRequest
    \/ PollClosed
    \/ Respond

SpecScenario == InitScenario /\ [][NextScenario]_vars

---------------------------------------------------------------------------
(* Helpers of the properties. *)

\* the entries of a sequence of records whose field t is tag, in order
RECURSIVE ValuesOf(_, _)
ValuesOf(rets, tag) ==
    IF rets = << >> THEN << >>
    ELSE (IF Head(rets).t = tag THEN <<Head(rets).v>> ELSE << >>)
         \o ValuesOf(Tail(rets), tag)

\* the items yielded as Ok so far, in the order yielded
OkItems == ValuesOf(out, "Ok")
\* the errors yielded so far
ErrItems == ValuesOf(out, "Err")

\* the arguments of the calls of one method of the delegate, in order
RECURSIVE ArgsOf(_, _)
ArgsOf(l, op) ==
    IF l = << >> THEN << >>
    ELSE (IF Head(l).op = op THEN <<Head(l).v>> ELSE << >>) \o ArgsOf(Tail(l), op)

IsPrefix(a, b) == Len(a) <= Len(b) /\ SubSeq(b, 1, Len(a)) = a

\* the last page fetched
LastPage == pages[Len(pages)]

\* the state is one of the four variants a caller may see
Settled == state \in {"Request", "Pending", "Ready", "Closed"}

---------------------------------------------------------------------------
(* C1: order preservation.  At every moment the items yielded so far,      *)
(* followed by the items still buffered, are the concatenation             *)
(* P1 ++ ... ++ Pn of the pages fetched so far; so when end-of-sequence is *)
(* signalled without an error, exactly P1 ++ ... ++ Pn was yielded, each   *)
(* item as Ok, in that order, none twice, none missing.                    *)
C1_OrderPreservation ==
    /\ IsPrefix(OkItems, Flatten(pages))
    /\ Settled => OkItems \o items = Flatten(pages)
    /\ (state = "Closed" /\ ErrItems = << >>) =>
          /\ OkItems = Flatten(pages)
          /\ \A i \in 1..Len(OkItems) : out[i] = RetOk(Flatten(pages)[i])
          /\ \A i \in (Len(OkItems) + 1)..Len(out) : out[i] = RetNone

\* three pages were fetched and drained, and the stream ended
C1_Witness ==
    /\ state = "Closed"
    /\ lastRet = RetNone
    /\ ErrItems = << >>
    /\ Len(pages) = 3
    /\ Len(pages[1]) = 2 /\ Len(pages[2]) = 3 /\ Len(pages[3]) = 1

---------------------------------------------------------------------------
\* the argument of the last call of a method of the delegate
LastArg(op) == LET a == ArgsOf(log, op) IN a[Len(a)]

\* a fetch resolved Ok in this step and its page was taken over
PageTaken == state = "Pending" /\ state' = "Ready"

---------------------------------------------------------------------------
(* C3: termination by total.  When the stream is Ready with an empty       *)
(* buffer and the offset has reached the total T the delegate reports, the *)
(* next pull returns end-of-sequence and closes the stream without         *)
(* starting a fetch, and no later pull starts one.                         *)
C3_TerminationByTotal ==
    /\ [][ ( /\ state = "Ready"
             /\ items = << >>
             /\ total_items(delegate) # None
             /\ offset(delegate) >= UnwrapOr(total_items(delegate), 0)
             /\ PollNext )
           => ( /\ lastRet' = RetNone
                /\ state' = "Closed"
                /\ nCreated' = nCreated
                /\ future' = NoFuture ) ]_vars
    /\ [][ state = "Closed"
           => ( /\ nCreated' = nCreated
                /\ NextPageCalls' = NextPageCalls
                /\ future' = NoFuture ) ]_vars

\* the stream closed on an offset equal to the total, and was pulled again
C3_Witness ==
    /\ state = "Closed"
    /\ ErrItems = << >>
    /\ NoneCount >= 2
    /\ LastArg("total_items") = LastArg("offset")
    /\ LastArg("offset") = 4
    /\ nCreated = 2

---------------------------------------------------------------------------
---------------------------------------------------------------------------
---------------------------------------------------------------------------
(* C6, as stated: Indeterminate is never the state between two calls of    *)
(* poll_next, and the unreachable!() of the Indeterminate branch is never  *)
(* executed.                                                               *)
C6_NeverIndeterminate ==
    /\ state # "Indeterminate"
    /\ lastRet.t # "Panic"

---------------------------------------------------------------------------
(* C7: at most one fetch is outstanding.  The futures created and not yet  *)
(* resolved number 0 or 1, and 1 exactly when the state is Pending, which  *)
(* is exactly when the stream holds a future; a future is created only     *)
(* when every earlier one has resolved; next_page has been called at most  *)
(* once for each future and never for a new one before the last resolved.  *)
C7_OneFetchOutstanding ==
    /\ [](nCreated - nFinished \in {0, 1})
    /\ [](nCreated - nFinished = 1 <=> state = "Pending")
    /\ [](future # NoFuture <=> state = "Pending")
    /\ [](NextPageCalls <= nCreated /\ NextPageCalls - nFinished \in {0, 1})
    /\ [][ nCreated' # nCreated
           => ( /\ nCreated' = nCreated + 1
                /\ nCreated = nFinished
                /\ future = NoFuture ) ]_vars

\* the second fetch is running: one outstanding, the first has resolved
C7_Witness ==
    /\ state = "Pending"
    /\ future = RunningFuture
    /\ nCreated = 2
    /\ nFinished = 1

---------------------------------------------------------------------------
(* C8: lazy fetching.  A future is created only by a pull that finds the   *)
(* buffer empty (in Ready) or by the first pull (in Request), and that     *)
(* pull returns Poll::Pending.  While the buffer holds an item the state   *)
(* is Ready and there is no future.  The pull that yields the last item of *)
(* a page, from the buffer or straight from the fetched page, leaves Ready *)
(* with an empty buffer and creates no future.                             *)
C8_LazyFetching ==
    /\ [][ nCreated' # nCreated
           => ( /\ PollNext
                /\ items = << >> /\ items' = << >>
                /\ lastRet' = RetPending
                /\ \/ state = "Request" /\ nCreated = 0
                   \/ state = "Ready" ) ]_vars
    /\ [](items # << >> => (state = "Ready" /\ future = NoFuture))
    /\ [][ (state = "Ready" /\ Len(items) = 1 /\ PollNext)
           => ( /\ state' = "Ready"
                /\ items' = << >>
                /\ lastRet' = RetOk(items[1])
                /\ nCreated' = nCreated
                /\ future' = NoFuture ) ]_vars
    /\ [][ PageTaken => (nCreated' = nCreated /\ future' = NoFuture) ]_vars

\* the last of the three items of a page was just yielded: Ready, empty
\* buffer, and still only the one fetch
C8_Witness ==
    /\ state = "Ready"
    /\ items = << >>
    /\ Len(pages) = 1
    /\ Len(LastPage) = 3
    /\ lastRet = RetOk(3)
    /\ nCreated = 1
    /\ future = NoFuture

---------------------------------------------------------------------------
\* what the consumer of the scenario gets: 25 items, then end-of-sequence
ScenarioOut == [i \in 1..25 |-> RetOk(i)] \o [i \in 1..MaxClosedPulls |-> RetNone]

(* C9: the concrete scenario (page size 10, total 25, pages of 10, 10 and  *)
(* 5 items).  The results are the 25 items in order and then, as the 26th, *)
(* end-of-sequence; the fetches are made at offsets 0, 10 and 20; the      *)
(* offsets handed to the source with set_offset are 10, 20 and 25; a       *)
(* fourth future is never created; nothing fails.                          *)
C9_ConcreteScenario ==
    /\ IsPrefix(out, ScenarioOut)
    /\ IsPrefix(ArgsOf(log, "next_page"), <<0, 10, 20>>)
    /\ IsPrefix(ArgsOf(log, "set_offset"), <<10, 20, 25>>)
    /\ nCreated <= 3
    /\ lastRet.t \notin {"Err", "Panic"}
    /\ delegate.kind = "Stored" => offset(delegate) \in {0, 10, 20, 25}
    /\ state = "Closed" =>
          /\ OkItems = [i \in 1..25 |-> i]
          /\ out[26] = RetNone
          /\ ArgsOf(log, "next_page") = <<0, 10, 20>>
          /\ ArgsOf(log, "set_offset") = <<10, 20, 25>>
          /\ nCreated = 3 /\ nFinished = 3

\* the 26th result was end-of-sequence, after three fetches
C9_Witness ==
    /\ state = "Closed"
    /\ Len(out) = 26
    /\ lastRet = RetNone
    /\ Len(pages) = 3

---------------------------------------------------------------------------
(* C10, as stated: with IssueSearchDelegate, once a page of fewer than     *)
(* per_page items was fetched and drained, the next pull returns           *)
(* end-of-sequence and closes the stream; no fetch follows.                *)
C10_ShortPageTerminates ==
    [][ ( /\ state = "Ready"
          /\ items = << >>
          /\ delegate.kind = "IssueSearch"
          /\ Len(LastPage) < delegate.per_page
          /\ PollNext )
        => ( /\ lastRet' = RetNone
             /\ state' = "Closed"
             /\ nCreated' = nCreated ) ]_vars


---------------------------------------------------------------------------
(* A delegate handed to PaginatedStream::from need not be at offset 0: the *)
(* stream reads whatever offset() reports.  SpecResume starts the storing  *)
(* delegate at offset 0 or one item short of usize::MAX.                   *)

\* the offsets a delegate may report when the stream is built from it
ResumeOffsets == {0, UsizeMax - 1}

InitResume ==
    /\ InitStream
    /\ source = FreeSource
    /\ serde = NoSerde
    /\ delegate \in {[StoredDelegate EXCEPT !.off = o] : o \in ResumeOffsets}

SpecResume == InitResume /\ [][Next]_vars

\* the buffer is empty and the delegate reports no total
DrainedNoTotal ==
    state = "Ready" /\ items = << >> /\ total_items(delegate) = None

(* C11 as stated: a pull that finds the buffer empty while total_items()   *)
(* is None never closes the stream, it starts the next fetch, whatever     *)
(* offset the delegate reports.                                            *)
C11_AbsentTotalUnbounded_Original ==
    [][DrainedNoTotal => (state' = "Pending" /\ lastRet' = RetPending)]_vars

(* C11: absent total treated as unbounded.  A pull that finds the buffer   *)
(* empty while total_items() is None starts the next fetch (state Pending, *)
(* a new future, Poll::Pending returned, the delegate kept) for every      *)
(* offset below usize::MAX; at offset usize::MAX the comparison            *)
(* offset >= usize::MAX holds and the pull closes the stream.              *)
C11_AbsentTotalUnbounded ==
    [][DrainedNoTotal =>
          IF offset(delegate) < UsizeMax
          THEN /\ state' = "Pending"
               /\ future' = CreatedFuture
               /\ nCreated' = nCreated + 1
               /\ lastRet' = RetPending
               /\ delegate' = delegate
               /\ out' = out
          ELSE /\ state' = "Closed"
               /\ lastRet' = RetNone]_vars

\* a fetch was started from an empty buffer while the total was absent
C11_Witness ==
    /\ state = "Pending" /\ future = CreatedFuture
    /\ total_items(delegate) = None
    /\ pages # << >> /\ OkItems = Flatten(pages)
    /\ lastRet = RetPending

---------------------------------------------------------------------------
(* Stream::size_hint. *)

\* faulty variant: the total is also reported while the future holds the delegate
size_hintPending ==
    IF state \in {"Request", "Pending", "Ready"}
    THEN <<0, total_items(delegate)>>
    ELSE <<0, None>>

\* size_hint(&self): (0, delegate.total_items()) for Request and Ready,
\* (0, None) for every other variant
size_hint ==
    IF state \in {"Request", "Ready"}
    THEN <<0, total_items(delegate)>>
    ELSE <<0, None>>

\* the total the last answered fetch carried, None before the first
KnownTotal == delegate.total_count

(* C12: size estimate.  size_hint returns lower bound 0 in every state;    *)
(* its upper bound is total_items() in Request and Ready (None before the  *)
(* first fetch resolved, the total the delegate learned after it) and None *)
(* in Pending and Closed, whatever total the delegate has learned.         *)
C12_SizeHint ==
    /\ size_hint[1] = 0
    /\ state \in {"Request", "Ready"} => size_hint[2] = KnownTotal
    /\ (state = "Request" /\ pages = << >>) => size_hint = <<0, None>>
    /\ (state = "Ready" /\ delegate.kind = "IssueSearch") => size_hint[2] # None
    /\ state \in {"Pending", "Closed"} => size_hint = <<0, None>>

\* a second fetch is in flight: the delegate inside the future knows a
\* total, the estimate does not show it
C12_Witness ==
    /\ state = "Pending"
    /\ KnownTotal # None
    /\ size_hint = <<0, None>>

---------------------------------------------------------------------------
\* the calls of set_offset so far
SetOffsetCalls == Len(ArgsOf(log, "set_offset"))

\* this step called set_offset
SetOffsetCalled == ArgsOf(log', "set_offset") # ArgsOf(log, "set_offset")

(* C13: ordering of the delegate's operations.  set_offset is called       *)
(* exactly once for each fetch that resolved Ok, in the pull that observes *)
(* the resolution; it is called at no other time (not by a pull that finds *)
(* the future unresolved or failed, not while draining or closing); and    *)
(* the offset a fetch is started with is the one the last set_offset left, *)
(* no set_offset falling between the start of a fetch and its resolution.  *)
C13_SetOffsetOrdering ==
    /\ [](SetOffsetCalls = Len(pages))
    /\ [][SetOffsetCalled =>
             /\ state = "Pending"
             /\ Len(pages') = Len(pages) + 1
             /\ nFinished' = nFinished + 1
             /\ SetOffsetCalls' = SetOffsetCalls + 1]_vars
    /\ [][(delegate' # delegate /\ delegate' # NoDelegate) => SetOffsetCalled]_vars
    /\ [][NextPageCalls' # NextPageCalls =>
             /\ state = "Pending" /\ future = CreatedFuture
             /\ LastArg("next_page")' = offset(delegate)]_vars

---------------------------------------------------------------------------
\* this step yielded an error
ErrorYielded == Len(ErrItems') > Len(ErrItems)

(* C14: the error is forwarded verbatim.  The pull that finds the fetch    *)
(* resolved to Err yields exactly the error value the fetch resolved with  *)
(* (the value of the answer waiting in the future), once, and closes;      *)
(* that pull calls no set_offset, and from then on no method of the        *)
(* delegate is called and no future is created: no retry.                  *)
C14_ErrorVerbatim ==
    /\ [][ErrorYielded =>
             /\ state = "Pending" /\ state' = "Closed"
             /\ \E e \in 1..MaxError :
                   /\ out' = Append(out, RetErr(e))
                   /\ lastRet' = RetErr(e)
                   /\ future.st = "Answered" => (~future.r.ok /\ future.r.err = e)
             /\ ~SetOffsetCalled
             /\ nCreated' = nCreated
             /\ log' = LogFuturePoll]_vars
    /\ [][ErrItems # << >> =>
             /\ log' = log
             /\ nCreated' = nCreated
             /\ future' = NoFuture
             /\ ErrItems' = ErrItems]_vars

\* the second fetch failed with error 2 after a page was yielded, and the
\* consumer pulled again
C14_Witness ==
    /\ state = "Closed"
    /\ ErrItems = <<2>>
    /\ pages # << >>
    /\ lastRet = RetNone
    /\ NextPageCalls = 2 /\ SetOffsetCalls = 1

---------------------------------------------------------------------------
\* the page of the fetch that just resolved Ok held no item
EmptyPageTaken == pages # << >> /\ LastPage = << >>

(* C15, as stated: when the fetch resolves Ok while the state is Pending,  *)
(* taking the first item of the page never fails: pop_front().unwrap() of  *)
(* the Pending branch panics in no reachable state, every page that        *)
(* resolves there holding an item.                                         *)
C15_UnwrapNeverPanics ==
    /\ lastRet # RetPanic(175)
    /\ ~EmptyPageTaken

---------------------------------------------------------------------------
(* The consumer of SpecWoken is a task on an executor: after Poll::Pending *)
(* it calls poll_next again only once its waker was woken, and it does so  *)
(* whenever that happened; after any other result it pulls again at will.  *)
(* Every request a running next_page made is answered in the end.          *)

\* the consumer may call poll_next now
CanPull == lastRet # RetPending \/ woken

\* one call of poll_next by that consumer
PullWhenWoken == CanPull /\ PollNext

\* PullWhenWoken or Respond, one disjunct for each way through poll_next
NextWoken ==
    \/ CanPull /\ PollRequest
    \/ CanPull /\ PollPendingStill
    \/ CanPull /\ PollPendingOk
    \/ CanPull /\ PollPendingOverflow
    \/ CanPull /\ PollPendingEmpty
    \/ CanPull /\ PollPendingErr
    \/ CanPull /\ PollReadySome
    \/ CanPull /\ PollReadyClose
    \/ CanPull /\ PollReadyRequest
    \/ CanPull /\ PollClosed
    \/ CanPull /\ PollIndeterminate
    \/ Respond

SpecWoken ==
    /\ Init
    /\ [][NextWoken]_vars
    /\ WF_vars(PullWhenWoken)
    /\ WF_vars(Respond)

\* the waker handed to the last poll is held by the fetch in flight
WakerRegistered == state = "Pending" /\ future.st = "Running"

(* C16, as stated: no lost wake-up.  After every Poll::Pending the         *)
(* caller's waker has been woken by the pull itself or is held by the      *)
(* fetch in flight; and, every started fetch resolving in the end, a       *)
(* consumer that pulls again only when woken receives in the end an item,  *)
(* an error or end-of-sequence.                                            *)
C16_NoLostWakeup ==
    /\ [](lastRet = RetPending => (woken \/ WakerRegistered))
    /\ (lastRet = RetPending) ~> (lastRet.t \in {"Ok", "Err", "None"})

---------------------------------------------------------------------------
\* where the delegate is held between two calls: in the Request value, in
\* the future of the Pending variant, in the ReadyStateValue, or nowhere
Holder ==
    CASE state = "Request" -> "Request"
      [] state = "Pending" -> "future"
      [] state = "Ready"   -> "ReadyStateValue"
      [] OTHER             -> "none"

\* the delegate was dropped
Dropped == delegate = NoDelegate

(* C17, as stated: exclusive ownership of the delegate.  Between pulls the *)
(* delegate is held by the one place the variant gives it (Request value,  *)
(* future, Ready value) while the state is Request, Pending or Ready, and  *)
(* by none once the state is Closed; and it is dropped only by a           *)
(* transition to Closed.                                                   *)
C17_ExclusiveOwnership ==
    /\ state \in {"Request", "Pending", "Ready"} => (~Dropped /\ Holder # "none")
    /\ state = "Closed" => (Dropped /\ Holder = "none")
    /\ Dropped => state = "Closed"

---------------------------------------------------------------------------
\* this step called total_items
TotalItemsCalled == ArgsOf(log', "total_items") # ArgsOf(log, "total_items")

(* C18: the total never truncates a page.  A pull that finds an item in    *)
(* the buffer yields it and keeps the rest, whether or not the offset has  *)
(* reached the total; total_items is called only by a pull that finds the  *)
(* buffer empty; so the stream closes by total only when every item of     *)
(* every fetched page has been yielded, also when the total is smaller     *)
(* than the number of items fetched.                                       *)
C18_TotalNeverTruncates ==
    /\ [][(state = "Ready" /\ items # << >>) =>
             /\ state' = "Ready"
             /\ out' = Append(out, RetOk(Head(items)))
             /\ items' = Tail(items)
             /\ delegate' = delegate
             /\ log' = log]_vars
    /\ [][TotalItemsCalled => (state = "Ready" /\ items = << >>)]_vars
    /\ [](state = "Ready" => OkItems \o items = Flatten(pages))
    /\ []((state = "Closed" /\ ErrItems = << >>) => OkItems = Flatten(pages))

\* the stream closed on a total of 2 after it yielded the 3 items fetched
C18_Witness ==
    /\ state = "Closed"
    /\ ErrItems = << >>
    /\ LastArg("total_items") = 2
    /\ Len(OkItems) = 3
    /\ OkItems = Flatten(pages)

---------------------------------------------------------------------------
\* poll_next has not been called since the stream was built
NotPolledYet == lastRet = NoRet

(* C19: construction.  A stream built by PaginatedStream::from is in       *)
(* state Request and holds the delegate it was given; until the first call *)
(* of poll_next no future exists, no method of the delegate has been       *)
(* called (no next_page, no offset, no set_offset, no total_items) and     *)
(* nothing is buffered or yielded; every call of a method of the delegate  *)
(* happens in a call of poll_next.                                         *)
C19_StartsInRequest ==
    /\ [](NotPolledYet =>
             /\ state = "Request"
             /\ ~Dropped /\ Holder = "Request"
             /\ offset(delegate) = 0 /\ total_items(delegate) = None
             /\ future = NoFuture /\ nCreated = 0 /\ nFinished = 0
             /\ log = << >>
             /\ items = << >> /\ out = << >> /\ pages = << >>)
    /\ [][log' # log => (lastRet' # NoRet /\ PollNext)]_vars

\* the stream as built from an IssueSearchDelegate, not polled yet
C19_Witness ==
    /\ NotPolledYet
    /\ state = "Request"
    /\ delegate = IssueSearchDelegate(MaxPerPage)
    /\ log = << >>

---------------------------------------------------------------------------
(* serde_with::base62 (src/src/serde_with/base62.rs): a number is written  *)
(* as the string base62::encode gives and read back with base62::decode    *)
(* and TryInto.  A string is modelled as the sequence of its characters,   *)
(* a character of the alphabet 0-9A-Za-z as its digit value 0..61 and any  *)
(* other character as 62.  The number types are u8 and u16; a decoded      *)
(* number is an integer of the model, which the strings of the bounds      *)
(* below cannot take beyond u128.                                          *)

\* the most values one Vec<T> holds
MaxValues == 2
\* the longest string handed to deserialize from elsewhere
MaxDigits == 3

Base62Base == 62
\* a character outside the alphabet
BadChar == 62

Types == {"u8", "u16"}
\* T::MAX
TypeMax(T) == IF T = "u8" THEN 255 ELSE 65535

\* the numbers of type T the model serializes: 0, T::MAX and the numbers
\* around the powers of 62
ValueChoices(T) ==
    {v \in {0, 1, 61, 62, 255, 256, 3843, 3844, 65535} : v <= TypeMax(T)}

\* the characters of the strings that come from elsewhere
DigitChoices == {0, 1, 2, 3, 4, 7, 8, 17, 61, BadChar}

SeqsUpTo(S, n) == UNION {[1..k -> S] : k \in 0..n}

\* base62::encode: the digits of v, most significant first, "0" for 0
RECURSIVE base62_encode(_)
base62_encode(v) ==
    IF v < Base62Base THEN <<v>>
    ELSE Append(base62_encode(v \div Base62Base), v % Base62Base)

DecodeOk(v) == [ok |-> TRUE, v |-> v]
DecodeErr   == [ok |-> FALSE, v |-> 0]

\* the number a string of digits denotes
RECURSIVE DigitsValue(_)
DigitsValue(s) ==
    IF s = << >> THEN 0
    ELSE DigitsValue(SubSeq(s, 1, Len(s) - 1)) * Base62Base + s[Len(s)]

\* base62::decode: an error for the empty string and for a character
\* outside the alphabet
base62_decode(s) ==
    IF s = << >> \/ \E i \in DOMAIN s : s[i] \notin 0..(Base62Base - 1)
    THEN DecodeErr
    ELSE DecodeOk(DigitsValue(s))

\* faulty variant: the number is cast to T, which keeps its low bits
try_intoWrapping(v, T) == DecodeOk(v % (TypeMax(T) + 1))

\* u128::try_into::<T>
try_into(v, T) == IF v <= TypeMax(T) THEN DecodeOk(v) ELSE DecodeErr

\* with::serialize: serialize_str(&base62::encode(value.clone()))
base62_serialize(value) == base62_encode(value)

\* _Visitor::visit_str: decode, then try_into, each error mapped to D::Error
visit_str(value, T) ==
    LET d == base62_decode(value)
    IN  IF d.ok THEN try_into(d.v, T) ELSE DecodeErr

\* with::deserialize: deserialize_str with the visitor
base62_deserialize(str, T) == visit_str(str, T)

\* the variables of the paginator
streamVars == <<state, delegate, items, future, woken, source, out, lastRet,
                pages, log, nCreated, nFinished, idle>>

\* what the adapter is applied to: a Vec<T> to serialize, or one string
\* from elsewhere to deserialize as T
Base62Inputs ==
    {[stage |-> "value", T |-> t, origin |-> "serialize", values |-> vs,
      strings |-> << >>, result |-> NoResult] :
        t \in Types, vs \in SeqsUpTo({0, 1, 61, 62, 255, 256, 3843, 3844, 65535}, MaxValues)}
    \cup
    {[stage |-> "string", T |-> t, origin |-> "received", values |-> << >>,
      strings |-> <<s>>, result |-> NoResult] :
        t \in Types, s \in SeqsUpTo(DigitChoices, MaxDigits)}

InitBase62 ==
    /\ InitStream
    /\ source = FreeSource
    /\ delegate = StoredDelegate
    /\ serde \in {i \in Base62Inputs :
                     \A k \in DOMAIN i.values : i.values[k] \in ValueChoices(i.T)}

\* Base62::serialize_as for each element of the Vec, in order
Base62Serialize ==
    /\ serde.stage = "value"
    /\ serde' = [serde EXCEPT
                   !.stage = "string",
                   !.strings = [i \in DOMAIN serde.values |->
                                   base62_serialize(serde.values[i])]]
    /\ UNCHANGED streamVars

\* Base62::deserialize_as for each string, in order; the first error is
\* the result
Base62Deserialize ==
    /\ serde.stage = "string"
    /\ LET rs == [i \in DOMAIN serde.strings |->
                     base62_deserialize(serde.strings[i], serde.T)]
       IN  serde' = [serde EXCEPT
                       !.stage = "done",
                       !.result = IF \A i \in DOMAIN rs : rs[i].ok
                                  THEN OkResult([i \in DOMAIN rs |-> rs[i].v])
                                  ELSE ErrResult]
    /\ UNCHANGED streamVars

NextBase62 ==
    \/ Base62Serialize
    \/ Base62Deserialize

SpecBase62 == InitBase62 /\ [][NextBase62]_vars

\* a string is the canonical base-62 numeral of v
IsNumeralOf(s, v) ==
    /\ s # << >>
    /\ \A i \in DOMAIN s : s[i] \in 0..(Base62Base - 1)
    /\ (Len(s) > 1 => s[1] # 0)
    /\ DigitsValue(s) = v

\* a string from elsewhere denotes a number beyond T::MAX
Oversized ==
    /\ serde.origin = "received"
    /\ \E i \in DOMAIN serde.strings :
          /\ base62_decode(serde.strings[i]).ok
          /\ base62_decode(serde.strings[i]).v > TypeMax(serde.T)

(* C20: the Base62 adapter.  Serializing a Vec of numbers writes, element  *)
(* by element and in order, the string base62::encode gives, which is the  *)
(* canonical base-62 numeral of the number; deserializing those strings    *)
(* gives the numbers back; and deserializing a string that denotes a       *)
(* number beyond the target type's range gives an error, no value.         *)
C20_Base62RoundTrip ==
    /\ (serde.origin = "serialize" /\ serde.stage \in {"string", "done"}) =>
          /\ Len(serde.strings) = Len(serde.values)
          /\ \A i \in DOMAIN serde.values :
                /\ serde.strings[i] = base62_encode(serde.values[i])
                /\ IsNumeralOf(serde.strings[i], serde.values[i])
    /\ (serde.origin = "serialize" /\ serde.stage = "done") =>
          serde.result = OkResult(serde.values)
    /\ (Oversized /\ serde.stage = "done") => ~serde.result.ok

\* a Vec of the largest u16 and 0 went through serialize and deserialize
C20_Witness ==
    /\ serde.stage = "done"
    /\ serde.origin = "serialize"
    /\ serde.values = <<65535, 0>>
    /\ serde.strings = <<<<17, 3, 1>>, <<0>>>>
    /\ serde.result.ok

---------------------------------------------------------------------------
(* serde_with::json_string (src/src/serde_with/json_string.rs): a value is *)
(* written as a string that holds its JSON text, and read back by parsing  *)
(* that string.  A JSON text is the sequence of its characters: the        *)
(* characters of the base-62 alphabet as 0..61 and the characters JSON     *)
(* gives a meaning to as the numbers below.  serde_json::to_string writes  *)
(* the compact form, a string between quotes with its quotes and           *)
(* backslashes escaped; serde_json::from_str reads it.  The values are     *)
(* strings, arrays and objects.                                            *)

Quote     == 63
Backslash == 64
LBracket  == 65
RBracket  == 66
Comma     == 67
LBrace    == 68
RBrace    == 69
Colon     == 70

\* the values of serde's data model the adapters meet
JStr(s) == [k |-> "str", s |-> s, a |-> << >>]
JArr(a) == [k |-> "arr", s |-> << >>, a |-> a]
JObj(m) == [k |-> "obj", s |-> << >>, a |-> m]
Member(key, val) == [key |-> key, val |-> val]

\* faulty variant: the characters of a string are written as they are
EscapeNone(s) == s

\* the characters of a string as serde_json writes them between the quotes
RECURSIVE Escape(_)
Escape(s) ==
    IF s = << >> THEN << >>
    ELSE (IF Head(s) \in {Quote, Backslash} THEN <<Backslash, Head(s)>>
          ELSE <<Head(s)>>) \o Escape(Tail(s))

\* serde_json::to_string
RECURSIVE to_string(_)
RECURSIVE JoinElems(_)
RECURSIVE JoinMembers(_)
JoinElems(a) ==
    IF a = << >> THEN << >>
    ELSE to_string(Head(a))
         \o (IF Tail(a) = << >> THEN << >> ELSE <<Comma>> \o JoinElems(Tail(a)))
JoinMembers(m) ==
    IF m = << >> THEN << >>
    ELSE <<Quote>> \o Escape(Head(m).key) \o <<Quote, Colon>> \o to_string(Head(m).val)
         \o (IF Tail(m) = << >> THEN << >> ELSE <<Comma>> \o JoinMembers(Tail(m)))
to_string(v) ==
    CASE v.k = "str" -> <<Quote>> \o Escape(v.s) \o <<Quote>>
      [] v.k = "arr" -> <<LBracket>> \o JoinElems(v.a) \o <<RBracket>>
      [] v.k = "obj" -> <<LBrace>> \o JoinMembers(v.a) \o <<RBrace>>

\* what a parser gives: a value and the text after it, or an error
Parsed(v, rest) == [ok |-> TRUE, v |-> v, rest |-> rest]
ParseErr        == [ok |-> FALSE, v |-> JStr(<< >>), rest |-> << >>]

\* serde_json's parser: a string after its opening quote, a value, the
\* elements of an array after "[", the members of an object after "{"
RECURSIVE ParseString(_, _)
RECURSIVE ParseValue(_)
RECURSIVE ParseElems(_, _)
RECURSIVE ParseMembers(_, _)
ParseString(t, acc) ==
    IF t = << >> THEN ParseErr
    ELSE IF Head(t) = Quote THEN Parsed(JStr(acc), Tail(t))
    ELSE IF Head(t) = Backslash
         THEN IF Len(t) >= 2 /\ t[2] \in {Quote, Backslash}
              THEN ParseString(Tail(Tail(t)), Append(acc, t[2]))
              ELSE ParseErr
    ELSE ParseString(Tail(t), Append(acc, Head(t)))
ParseValue(t) ==
    IF t = << >> THEN ParseErr
    ELSE IF Head(t) = Quote THEN ParseString(Tail(t), << >>)
    ELSE IF Head(t) = LBracket
         THEN IF Len(t) >= 2 /\ t[2] = RBracket
              THEN Parsed(JArr(<< >>), Tail(Tail(t)))
              ELSE ParseElems(Tail(t), << >>)
    ELSE IF Head(t) = LBrace
         THEN IF Len(t) >= 2 /\ t[2] = RBrace
              THEN Parsed(JObj(<< >>), Tail(Tail(t)))
              ELSE ParseMembers(Tail(t), << >>)
    ELSE ParseErr
ParseElems(t, acc) ==
    LET r == ParseValue(t)
    IN  IF ~r.ok \/ r.rest = << >> THEN ParseErr
        ELSE IF Head(r.rest) = Comma THEN ParseElems(Tail(r.rest), Append(acc, r.v))
        ELSE IF Head(r.rest) = RBracket THEN Parsed(JArr(Append(acc, r.v)), Tail(r.rest))
        ELSE ParseErr
ParseMembers(t, acc) ==
    IF t = << >> \/ Head(t) # Quote THEN ParseErr
    ELSE LET key == ParseString(Tail(t), << >>)
         IN  IF ~key.ok \/ key.rest = << >> \/ Head(key.rest) # Colon THEN ParseErr
             ELSE LET r == ParseValue(Tail(key.rest))
                      m == Append(acc, Member(key.v.s, r.v))
                  IN  IF ~r.ok \/ r.rest = << >> THEN ParseErr
                      ELSE IF Head(r.rest) = Comma THEN ParseMembers(Tail(r.rest), m)
                      ELSE IF Head(r.rest) = RBrace THEN Parsed(JObj(m), Tail(r.rest))
                      ELSE ParseErr

\* serde_json::from_str: one value and nothing after it
from_str(t) ==
    LET r == ParseValue(t)
    IN  IF r.ok /\ r.rest = << >> THEN Parsed(r.v, << >>) ELSE ParseErr

\* with::serialize of json_string: serialize_str(&serde_json::to_string(value)?)
json_string_serialize(value) == JStr(to_string(value))

\* with::deserialize of json_string: deserialize_str, and visit_str parses
json_string_deserialize(value) ==
    IF value.k = "str" THEN from_str(value.s) ELSE ParseErr

\* the keys "first", "last" and "values" of the structs of the tests
KeyFirst  == <<41, 44, 53, 54, 55>>
KeyLast   == <<47, 36, 54, 55>>
KeyValues == <<57, 36, 47, 56, 40, 54>>

\* tests::Human, without its birth field
Human(first, last) == [first |-> first, last |-> last]

\* the names a Human is given: A, O"B and a lone backslash
NameChoices == {<<10>>, <<24, Quote, 11>>, <<Backslash>>}

\* the characters of a string that comes from elsewhere
TextChars == {10, Quote, Backslash, LBracket, RBracket, Comma}

\* derive(Serialize) for Human
HumanToValue(h) ==
    JObj(<<Member(KeyFirst, JStr(h.first)), Member(KeyLast, JStr(h.last))>>)

\* derive(Deserialize) for Human
HumanFromValue(j) ==
    IF /\ j.k = "obj" /\ Len(j.a) = 2
       /\ j.a[1].key = KeyFirst /\ j.a[1].val.k = "str"
       /\ j.a[2].key = KeyLast /\ j.a[2].val.k = "str"
    THEN [ok |-> TRUE, h |-> Human(j.a[1].val.s, j.a[2].val.s)]
    ELSE [ok |-> FALSE, h |-> Human(<< >>, << >>)]

\* the annotations of the field values in the two tests
VecOfJsonString == "Vec<JsonString<_>>"
JsonStringOfVec == "JsonString<Vec<Base62>>"

NoJsonResult == [ok |-> FALSE, humans |-> << >>, numbers |-> << >>]
JsonResult(hs, ns) == [ok |-> TRUE, humans |-> hs, numbers |-> ns]

\* JsonString::serialize_as under each annotation: every Human as a string
\* of its own, or the whole Vec, its numbers written by Base62, as one
JsonStringField(adapter, humans, numbers) ==
    IF adapter = VecOfJsonString
    THEN JArr([i \in DOMAIN humans |-> json_string_serialize(HumanToValue(humans[i]))])
    ELSE json_string_serialize(
             JArr([i \in DOMAIN numbers |-> JStr(base62_serialize(numbers[i]))]))

\* JsonString::deserialize_as under each annotation
JsonStringValues(adapter, field) ==
    IF adapter = VecOfJsonString
    THEN IF field.k # "arr" THEN NoJsonResult
         ELSE LET ps == [i \in DOMAIN field.a |-> json_string_deserialize(field.a[i])]
                  hs == [i \in DOMAIN field.a |-> HumanFromValue(ps[i].v)]
              IN  IF \A i \in DOMAIN field.a : ps[i].ok /\ hs[i].ok
                  THEN JsonResult([i \in DOMAIN field.a |-> hs[i].h], << >>)
                  ELSE NoJsonResult
    ELSE LET p == json_string_deserialize(field)
         IN  IF ~p.ok \/ p.v.k # "arr" THEN NoJsonResult
             ELSE LET ns == [i \in DOMAIN p.v.a |->
                                IF p.v.a[i].k = "str"
                                THEN base62_deserialize(p.v.a[i].s, "u16")
                                ELSE DecodeErr]
                  IN  IF \A i \in DOMAIN ns : ns[i].ok
                      THEN JsonResult(<< >>, [i \in DOMAIN ns |-> ns[i].v])
                      ELSE NoJsonResult

\* the container of a test before it is serialized, or a container whose
\* field holds a string from elsewhere
JsonInputs ==
    {[stage |-> "value", adapter |-> VecOfJsonString, origin |-> "serialize",
      humans |-> hs, numbers |-> << >>, field |-> JStr(<< >>), wire |-> << >>,
      result |-> NoJsonResult] :
        hs \in SeqsUpTo({Human(f, l) : f \in NameChoices, l \in NameChoices}, MaxValues)}
    \cup
    {[stage |-> "value", adapter |-> JsonStringOfVec, origin |-> "serialize",
      humans |-> << >>, numbers |-> ns, field |-> JStr(<< >>), wire |-> << >>,
      result |-> NoJsonResult] :
        ns \in SeqsUpTo(ValueChoices("u16"), MaxValues)}
    \cup
    {[stage |-> "field", adapter |-> JsonStringOfVec, origin |-> "received",
      humans |-> << >>, numbers |-> << >>, field |-> JStr(t), wire |-> << >>,
      result |-> NoJsonResult] :
        t \in SeqsUpTo(TextChars, MaxDigits)}

InitJsonString ==
    /\ InitStream
    /\ source = FreeSource
    /\ delegate = StoredDelegate
    /\ serde \in JsonInputs

\* the field values is serialized through its annotation
JsonStringSerialize ==
    /\ serde.stage = "value"
    /\ serde' = [serde EXCEPT
                   !.stage = "field",
                   !.field = JsonStringField(serde.adapter, serde.humans, serde.numbers)]
    /\ UNCHANGED streamVars

\* serde_json::to_string(&container)
ContainerToString ==
    /\ serde.stage = "field"
    /\ serde' = [serde EXCEPT
                   !.stage = "wire",
                   !.wire = to_string(JObj(<<Member(KeyValues, serde.field)>>))]
    /\ UNCHANGED streamVars

\* serde_json::from_str of the container: the field values is
\* deserialized through its annotation
ContainerFromStr ==
    /\ serde.stage = "wire"
    /\ LET c == from_str(serde.wire)
       IN  serde' = [serde EXCEPT
                       !.stage = "done",
                       !.result =
                           IF c.ok /\ c.v.k = "obj" /\ Len(c.v.a) = 1
                              /\ c.v.a[1].key = KeyValues
                           THEN JsonStringValues(serde.adapter, c.v.a[1].val)
                           ELSE NoJsonResult]
    /\ UNCHANGED streamVars

NextJsonString ==
    \/ JsonStringSerialize
    \/ ContainerToString
    \/ ContainerFromStr

SpecJsonString == InitJsonString /\ [][NextJsonString]_vars

\* the string s holds the JSON text of the value v
HoldsJsonOf(s, v) == s.k = "str" /\ from_str(s.s) = Parsed(v, << >>)

(* C21: the JsonString adapter.  The string it writes holds the JSON text  *)
(* of the value: parsing the string gives the value back, for each Human   *)
(* of a Vec in order, and for JsonString<Vec<Base62>> one string that      *)
(* holds an array of strings which base62::decode turns into the numbers,  *)
(* in order; the string survives the container's own JSON text, and        *)
(* deserializing the container gives the values the test started with.  A  *)
(* string from elsewhere gives values only if it parses.                   *)
C21_JsonStringRoundTrip ==
    /\ (serde.origin = "serialize" /\ serde.stage \in {"field", "wire", "done"}
            /\ serde.adapter = VecOfJsonString) =>
          /\ serde.field.k = "arr"
          /\ Len(serde.field.a) = Len(serde.humans)
          /\ \A i \in DOMAIN serde.humans :
                /\ HoldsJsonOf(serde.field.a[i], HumanToValue(serde.humans[i]))
                /\ HumanFromValue(from_str(serde.field.a[i].s).v)
                       = [ok |-> TRUE, h |-> serde.humans[i]]
    /\ (serde.origin = "serialize" /\ serde.stage \in {"field", "wire", "done"}
            /\ serde.adapter = JsonStringOfVec) =>
          /\ serde.field.k = "str"
          /\ LET p == from_str(serde.field.s)
             IN  /\ p.ok /\ p.v.k = "arr"
                 /\ Len(p.v.a) = Len(serde.numbers)
                 /\ \A i \in DOMAIN serde.numbers :
                       /\ p.v.a[i].k = "str"
                       /\ base62_decode(p.v.a[i].s) = DecodeOk(serde.numbers[i])
    /\ (serde.origin = "serialize" /\ serde.stage \in {"wire", "done"}) =>
          from_str(serde.wire) = Parsed(JObj(<<Member(KeyValues, serde.field)>>), << >>)
    /\ (serde.origin = "serialize" /\ serde.stage = "done") =>
          serde.result = JsonResult(serde.humans, serde.numbers)
    /\ (serde.origin = "received" /\ serde.stage = "done") =>
          (serde.result.ok => from_str(serde.field.s).ok)

\* the largest number and 0 went through JsonString<Vec<Base62>> and back
C21_Witness ==
    /\ serde.stage = "done"
    /\ serde.adapter = JsonStringOfVec
    /\ serde.origin = "serialize"
    /\ serde.numbers = <<65535, 0>>
    /\ serde.field = JStr(<<LBracket, Quote, 17, 3, 1, Quote, Comma, Quote, 0, Quote, RBracket>>)
    /\ serde.result = JsonResult(<< >>, <<65535, 0>>)

---------------------------------------------------------------------------
\* this step boxed a future: the Request branch ran
FutureCreated == nCreated' = nCreated + 1

(* C22: the Request branch.  A pull that finds the state Request leaves it *)
(* Pending and returns Poll::Pending with the caller's waker woken; it     *)
(* does not poll the future it boxed, so next_page is not called and       *)
(* nothing resolves in that call, whatever the fetch would answer; the     *)
(* same holds when the Ready branch enters the Request branch.  So a page  *)
(* is taken, and its first item yielded, only by a later pull than the one *)
(* that boxed its future.                                                  *)
C22_RequestBranch ==
    /\ [][state = "Request" =>
             (state' = "Pending" /\ FutureCreated /\ out' = out)]_vars
    /\ [][FutureCreated =>
             /\ state \in {"Request", "Ready"}
             /\ state' = "Pending"
             /\ future' = CreatedFuture
             /\ lastRet' = RetPending
             /\ woken'
             /\ NextPageCalls' = NextPageCalls
             /\ nFinished' = nFinished
             /\ pages' = pages /\ out' = out /\ items' = items
             /\ delegate' = delegate]_vars
    /\ [][pages' # pages =>
             (state = "Pending" /\ nCreated' = nCreated /\ nCreated = nFinished + 1)]_vars

\* the first pull has returned: a future is boxed and was not polled
C22_Witness ==
    /\ state = "Pending"
    /\ future = CreatedFuture
    /\ lastRet = RetPending
    /\ woken
    /\ nCreated = 1
    /\ log = << >>

---------------------------------------------------------------------------
\* this step is a pull that found the future of the Pending state not ready
PulledUnresolved == state = "Pending" /\ state' = "Pending" /\ idle' = idle + 1

\* the futures boxed so far whose body has begun to run
FuturesStarted == nCreated - (IF future.st = "Created" THEN 1 ELSE 0)

---------------------------------------------------------------------------
\* this step is a pull that found the fetch resolved Ok with a page that
\* holds an item
PageResolved == Len(pages') = Len(pages) + 1 /\ LastPage' # << >>

(* C24, as stated: a pull that finds the fetch resolved with a page        *)
(* [i1, ..., ik], k >= 1, returns Ok(i1) and leaves the state Ready with   *)
(* the buffer [i2, ..., ik], set_offset having been called with the old    *)
(* offset plus k.                                                          *)
C24_PageTakenOver ==
    [][PageResolved =>
          /\ state = "Pending" /\ state' = "Ready"
          /\ lastRet' = RetOk(Head(LastPage'))
          /\ out' = Append(out, RetOk(Head(LastPage')))
          /\ items' = Tail(LastPage')
          /\ SetOffsetCalls' = SetOffsetCalls + 1
          /\ LastArg("set_offset")' = offset(delegate) + Len(LastPage')]_vars

---------------------------------------------------------------------------
\* the buffer of the Ready state holds an item
Buffered == state = "Ready" /\ items # << >>

(* C25: draining leaves the delegate alone.  A pull that finds an item in  *)
(* the buffer returns that front item, never Poll::Pending, takes exactly  *)
(* that item off the buffer and keeps the state Ready; it calls no method  *)
(* of the delegate and boxes no future, so offset() and total_items() are  *)
(* what they were.                                                         *)
C25_DrainingFrame ==
    [][Buffered =>
          /\ lastRet' = RetOk(items[1])
          /\ lastRet' # RetPending
          /\ items' = SubSeq(items, 2, Len(items))
          /\ state' = "Ready"
          /\ log' = log
          /\ offset(delegate') = offset(delegate)
          /\ total_items(delegate') = total_items(delegate)
          /\ delegate' = delegate
          /\ future' = NoFuture /\ nCreated' = nCreated /\ nFinished' = nFinished
          /\ pages' = pages]_vars

\* a page of three items was drained to the end: one set_offset call,
\* made when the page arrived
C25_Witness ==
    /\ state = "Ready"
    /\ items = << >>
    /\ Len(pages) = 1 /\ Len(OkItems) = 3
    /\ SetOffsetCalls = 1
    /\ offset(delegate) = 3

---------------------------------------------------------------------------
\* the buffer is empty and the offset is below the total the delegate
\* reports, or it reports none
DrainedBelowTotal ==
    /\ state = "Ready" /\ items = << >>
    /\ \/ total_items(delegate) = None
       \/ /\ total_items(delegate) # None
          /\ offset(delegate) < total_items(delegate)[1]

\* the same, an absent total standing for usize::MAX
DrainedBelowBound ==
    /\ state = "Ready" /\ items = << >>
    /\ \/ total_items(delegate) = None /\ offset(delegate) < UsizeMax
       \/ /\ total_items(delegate) # None
          /\ offset(delegate) < total_items(delegate)[1]

\* the pull ran the Request branch and left the state Pending
FetchStartedInCall ==
    /\ state' = "Pending"
    /\ lastRet' = RetPending
    /\ nCreated' = nCreated + 1
    /\ future' = CreatedFuture
    /\ woken'
    /\ NextPageCalls' = NextPageCalls
    /\ SetOffsetCalls' = SetOffsetCalls
    /\ delegate' = delegate
    /\ out' = out

(* C26, as stated: a pull that finds the buffer empty and the offset below *)
(* the total, or the total absent, runs the Request branch in the same     *)
(* call: it returns Poll::Pending with the state Pending and exactly one   *)
(* future boxed; Request is not the state the call ends in.                *)
C26_ReenterRequest_Original ==
    [][DrainedBelowTotal => FetchStartedInCall]_vars

(* C26: re-entering Request.  A pull that finds the buffer empty and the   *)
(* offset below the total, or the total absent and the offset below        *)
(* usize::MAX, runs the Request branch in the same call: it returns        *)
(* Poll::Pending with the state Pending and exactly one future boxed, not  *)
(* polled; Request is not the state the call ends in.  With the total      *)
(* absent and the offset usize::MAX the pull closes the stream.            *)
C26_ReenterRequest ==
    /\ [][DrainedBelowBound => (FetchStartedInCall /\ state' # "Request")]_vars
    /\ [][(DrainedBelowTotal /\ ~DrainedBelowBound) =>
             (state' = "Closed" /\ lastRet' = RetNone /\ nCreated' = nCreated)]_vars

\* a second fetch was started by the pull that found the first page
\* drained, the offset being below a reported total
C26_Witness ==
    /\ state = "Pending" /\ future = CreatedFuture
    /\ nCreated = 2
    /\ total_items(delegate) # None
    /\ offset(delegate) < total_items(delegate)[1]
    /\ lastRet = RetPending
    /\ items = << >> /\ OkItems = Flatten(pages) /\ OkItems # << >>

---------------------------------------------------------------------------
---------------------------------------------------------------------------
\* the delegate stores the offset it is given and started from 0
StoresOffset == delegate.kind = "Stored"

\* the pull closes the stream because the offset reached the total
ClosedByTotal == state = "Ready" /\ state' = "Closed"

(* C28: accounting.  For a delegate that stores the offset it is given,    *)
(* starting from 0: whenever the state is Ready between pulls, offset() is *)
(* the number of Ok items yielded so far plus the number of items left in  *)
(* the buffer; and when a pull closes the stream by the total, no error    *)
(* having been yielded, the number of Ok items yielded is the offset the   *)
(* pull read.                                                              *)
C28_Accounting ==
    /\ [](StoresOffset /\ state = "Ready" =>
             offset(delegate) = Len(OkItems) + Len(items))
    /\ [][(StoresOffset /\ ClosedByTotal) =>
             /\ ErrItems' = << >>
             /\ Len(OkItems') = offset(delegate)
             /\ Len(OkItems') = LastArg("offset")']_vars

\* two pages were taken over by a storing delegate, four items of them are
\* yielded and one is left in the buffer
C28_Witness ==
    /\ StoresOffset /\ state = "Ready"
    /\ Len(pages) = 2
    /\ Len(OkItems) = 4 /\ Len(items) = 1
    /\ offset(delegate) = 5

---------------------------------------------------------------------------
\* poll_next has been called at least once
Pulled == lastRet # NoRet

(* C29: Request is the state between pulls only before the first pull.     *)
(* Once poll_next has been called, the state between pulls is Pending,     *)
(* Ready or Closed, never Request: every later entry into Request is left  *)
(* within the same call.                                                   *)
C29_RequestOnlyBeforeFirstPull ==
    /\ Pulled => state \in {"Pending", "Ready", "Closed"}
    /\ Pulled => state # "Request"
    /\ state = "Request" => (nCreated = 0 /\ out = << >>)

---------------------------------------------------------------------------
\* size_hint returns (0, Some(U)) after n Ok items were yielded
HintAfter(U, n) == size_hint = <<0, Some(U)>> /\ Len(OkItems) = n

(* C30: the upper bound of size_hint is a valid bound.  Whenever size_hint *)
(* returns (0, Some(U)), the pulls made from then on yield at most U Ok    *)
(* items, whatever pages and totals the remote side answers with.          *)
C30_SizeHintUpperBound ==
    \A U \in TotalChoices : \A n \in 0..(MaxPageLen * MaxFetches) :
        [](HintAfter(U, n) => [](Len(OkItems) <= n + U))

---------------------------------------------------------------------------
\* fetches that resolved Ok and whose page the stream took over
FetchesSucceeded == Len(pages)

(* C31: Ready only after a successful fetch.  In every state Ready at      *)
(* least one fetch has resolved Ok, so a delegate whose total_items() is   *)
(* None only before the first Ok answer (IssueSearchDelegate) reports Some *)
(* total whenever the Ready branch reads it, and the pull that finds the   *)
(* buffer empty compares the offset with that total.                       *)
C31_ReadyAfterFetch ==
    /\ [](state = "Ready" => FetchesSucceeded >= 1)
    /\ []((state = "Ready" /\ delegate.kind = "IssueSearch") =>
             total_items(delegate) # None)
    /\ [][(state = "Ready" /\ items = << >> /\ delegate.kind = "IssueSearch") =>
             LastArg("total_items")' = total_items(delegate)[1]]_vars

\* the Ready branch of an IssueSearchDelegate stream has read the total
\* after one fetch, and started the second
C31_Witness ==
    /\ state = "Pending" /\ nCreated = 2
    /\ delegate.kind = "IssueSearch"
    /\ FetchesSucceeded = 1
    /\ total_items(delegate) = Some(4)
    /\ ArgsOf(log, "total_items") = <<4>>

---------------------------------------------------------------------------
\* the first fetch has been answered Ok with no item and total 0, and the
\* stream has not been pulled since
EmptyResultSet ==
    /\ state = "Pending" /\ pages = << >>
    /\ future = AnsweredFuture(OkResp(0, Some(0)))

\* a pull polled the future and found it resolved
FutureResolved == nFinished' = nFinished + 1

(* C32: empty result set.  When the first fetch resolves Ok with zero      *)
(* items and the total is 0, the pull that finds it ends the stream: it    *)
(* returns None, yields no item and no error, does not panic and leaves    *)
(* the state Closed, not Indeterminate.                                    *)
C32_EmptyResultSet ==
    [][(EmptyResultSet /\ FutureResolved) =>
          /\ lastRet'.t # "Panic"
          /\ state' # "Indeterminate"
          /\ lastRet' = RetNone /\ state' = "Closed"
          /\ OkItems' = << >> /\ ErrItems' = << >>]_vars

---------------------------------------------------------------------------
(* A well-behaved remote side: the delegate stores the offset it is given, *)
(* every Ok answer carries the same total T and at least one item, a       *)
(* request may fail.  The consumer is the task of SpecWoken: it pulls      *)
(* again whenever it may, and every request is answered in the end.        *)

\* the largest fixed total
MaxTotal == 3

InitFixed ==
    /\ InitStream
    /\ source \in {FixedSource(T) : T \in 1..MaxTotal}
    /\ serde = NoSerde
    /\ delegate = StoredDelegate

NextFixed ==
    \/ CanPull /\ PollRequest
    \/ CanPull /\ PollPendingStill
    \/ CanPull /\ PollPendingOk
    \/ CanPull /\ PollPendingErr
    \/ CanPull /\ PollReadySome
    \/ CanPull /\ PollReadyClose
    \/ CanPull /\ PollReadyRequest
    \/ CanPull /\ PollClosed
    \/ Respond

SpecFixed ==
    /\ InitFixed
    /\ [][NextFixed]_vars
    /\ WF_vars(PullWhenWoken)
    /\ WF_vars(Respond)

\* the total every answer of the remote side carries
FixedTotal == source.total[1]

(* C33: termination.  With a delegate that stores its offset, a remote     *)
(* side that reports one finite total T with every answer and at least one *)
(* item per Ok answer, every request answered in the end and a consumer    *)
(* that keeps pulling, the stream reaches Closed, and at most T fetches    *)
(* are started and resolve Ok on the way.                                  *)
C33_Termination ==
    /\ <>(state = "Closed")
    /\ [](FetchesSucceeded <= FixedTotal /\ nCreated <= FixedTotal)

\* the stream closed by the total after T fetches of one item each
C33_Witness ==
    /\ state = "Closed" /\ lastRet = RetNone
    /\ FixedTotal = MaxTotal
    /\ FetchesSucceeded = FixedTotal
    /\ Len(OkItems) = FixedTotal
    /\ ErrItems = << >>

---------------------------------------------------------------------------
(* C34: errors come at page boundaries.  A future is held only while no    *)
(* item is buffered, so when an error is yielded every item of every page  *)
(* fetched before has been yielded: no buffered item is lost to an error.  *)
C34_ErrorAtPageBoundary ==
    /\ [](state = "Pending" => items = << >>)
    /\ [](future # NoFuture => (state = "Pending" /\ items = << >>))
    /\ [](ErrItems # << >> => (OkItems = Flatten(pages) /\ items = << >>))
    /\ [][ErrorYielded => (items = << >> /\ OkItems' = Flatten(pages'))]_vars

\* the second fetch failed after the three items of the first page were
\* yielded
C34_Witness ==
    /\ state = "Closed" /\ Len(ErrItems) = 1
    /\ Len(pages) = 1 /\ Len(LastPage) = 3
    /\ OkItems = LastPage
    /\ out[Len(out)].t = "Err"

---------------------------------------------------------------------------
\* the last page an IssueSearchDelegate took over was short (0 < k <
\* per_page) while the reported total is above the number of items fetched
ShortNonFinalPage ==
    /\ state = "Ready"
    /\ delegate.kind = "IssueSearch"
    /\ pages # << >>
    /\ 0 < Len(LastPage) /\ Len(LastPage) < delegate.per_page
    /\ total_items(delegate)[1] > Len(Flatten(pages))

(* C35: short non-final page.  With IssueSearchDelegate, after a fetch     *)
(* that returned k items, 0 < k < per_page, while the reported total is    *)
(* above the number of items fetched so far, no further fetch is started:  *)
(* the k items are drained, then the pull that finds the buffer empty      *)
(* returns None and closes, fewer than total items having been yielded.    *)
C35_ShortPageEndsStream ==
    [][ShortNonFinalPage =>
          /\ nCreated' = nCreated
          /\ items = << >> =>
                /\ state' = "Closed" /\ lastRet' = RetNone
                /\ Len(OkItems') < total_items(delegate)[1]]_vars

---------------------------------------------------------------------------
(* IssueSearchDelegate::set_offset and offset on their own: set_offset is  *)
(* called with values at both ends of usize, for several page sizes.       *)

\* the values tried lie within this distance of 0 or of usize::MAX
MaxOffsetArg == 24

OffsetArgs == (0..MaxOffsetArg) \cup ((UsizeMax - MaxOffsetArg)..UsizeMax)

PerPageChoices == (1..MaxPerPage) \cup {ScenarioPerPage}

InitOffset ==
    /\ InitStream
    /\ source = FreeSource
    /\ serde = NoSerde
    /\ delegate \in {IssueSearchDelegate(p) : p \in PerPageChoices}

\* delegate.set_offset(v)
SetOffsetCall ==
    /\ \E v \in OffsetArgs :
          /\ delegate' = set_offset(delegate, v)
          /\ log' = << LogEntry("set_offset", v) >>
    /\ UNCHANGED <<state, items, future, woken, source, serde, out, lastRet, pages,
                   nCreated, nFinished, idle>>

NextOffsetMapping == SetOffsetCall

SpecOffset == InitOffset /\ [][NextOffsetMapping]_vars

\* per_page * (usize::MAX / per_page)
SentinelOffset(d) == d.per_page * (UsizeMax \div d.per_page)

---------------------------------------------------------------------------
(* IssueSearchDelegate on its own: next_page and set_offset are called on  *)
(* the delegate directly, any number of answers being Ok or Err.  The      *)
(* variable future keeps the last answer, nCreated counts the calls of     *)
(* next_page and nFinished those that returned Ok.                         *)

\* next_page().await returned Ok
NextPageOkCall ==
    /\ nCreated < MaxFetches
    /\ \E r \in Responses(delegate, nCreated + 1) :
          /\ r.ok
          /\ delegate' = next_page_ok(delegate, r.total)
          /\ future' = AnsweredFuture(r)
    /\ nCreated' = nCreated + 1
    /\ nFinished' = nFinished + 1
    /\ UNCHANGED <<state, items, woken, source, serde, out, lastRet, pages, log, idle>>

\* next_page().await returned Err
NextPageErrCall ==
    /\ nCreated < MaxFetches
    /\ \E r \in Responses(delegate, nCreated + 1) :
          /\ ~r.ok
          /\ delegate' = next_page_err(delegate)
          /\ future' = AnsweredFuture(r)
    /\ nCreated' = nCreated + 1
    /\ UNCHANGED <<state, items, woken, source, serde, out, lastRet, pages, log,
                   nFinished, idle>>

NextIssueSearch ==
    \/ NextPageOkCall
    \/ NextPageErrCall
    \/ SetOffsetCall

SpecIssueSearch == InitOffset /\ [][NextIssueSearch]_vars

\* next_page was called in this step
NextPageCalled == nCreated' = nCreated + 1

(* C37: total of IssueSearchDelegate.  total_items() is None until a       *)
(* next_page has returned Ok; a next_page that returns Ok leaves it at     *)
(* Some(total_count) of that response; a next_page that returns Err and a  *)
(* set_offset leave it as it was.  So it always is the total_count of the  *)
(* most recent Ok response.                                                *)
C37_TotalOfLastResponse ==
    /\ [](nFinished = 0 <=> total_items(delegate) = None)
    /\ [][(NextPageCalled /\ future'.r.ok) =>
             total_items(delegate') = future'.r.total]_vars
    /\ [][(NextPageCalled /\ ~future'.r.ok) =>
             total_items(delegate') = total_items(delegate)]_vars
    /\ [][~NextPageCalled => total_items(delegate') = total_items(delegate)]_vars

\* two answers gave totals 4 and 2, the third call failed: the total is
\* still 2
C37_Witness ==
    /\ nCreated = 3 /\ nFinished = 2
    /\ ~future.r.ok
    /\ total_items(delegate) = Some(2)

---------------------------------------------------------------------------
(* A delegate whose total changes on its own between a fetch and the pull  *)
(* that finds the buffer empty (total_items() is documented as a value     *)
(* whose accuracy is up to the implementor).  The change is logged with    *)
(* the total it replaces.                                                  *)

\* the most changes of the total in one behaviour
MaxTotalChanges == 1

\* changes of the total so far
TotalChangeCount == Len(ArgsOf(log, "total_changed"))

\* total_items() of the delegate held in Ready changes, at most once per page
TotalChanges ==
    /\ state = "Ready"
    /\ delegate.kind = "Stored"
    /\ ~TotalDrifted
    /\ TotalChangeCount < MaxTotalChanges
    /\ \E t \in TotalOptions(delegate) \ {total_items(delegate)} :
          /\ delegate' = [delegate EXCEPT !.total_count = t]
          /\ log' = log \o
                << LogEntry("total_was", UnwrapOr(total_items(delegate), UsizeMax)),
                   LogEntry("total_changed", UnwrapOr(t, UsizeMax)) >>
    /\ UNCHANGED <<state, items, future, woken, source, serde, out, lastRet, pages,
                   nCreated, nFinished, idle>>

InitDrift ==
    /\ InitStream
    /\ source = FreeSource
    /\ serde = NoSerde
    /\ delegate = StoredDelegate

NextDrift ==
    \/ PollRequest
    \/ PollPendingStill
    \/ PollPendingOk
    \/ PollPendingEmpty
    \/ PollPendingErr
    \/ PollReadySome
    \/ PollReadyClose
    \/ PollReadyRequest
    \/ PollClosed
    \/ PollIndeterminate
    \/ Respond
    \/ TotalChanges

SpecDrift == InitDrift /\ [][NextDrift]_vars

\* the pull finds the buffer empty after the total changed
DrainedAfterDrift == state = "Ready" /\ items = << >> /\ TotalDrifted

\* the total the change left
ChangedTotal == log[Len(log)].v

(* C38: the termination check reads the current total.  When the           *)
(* delegate's total changed between the fetch and the pull that finds the  *)
(* buffer empty, that pull reads the changed total and decides by it: it   *)
(* closes when the offset has reached the changed total and starts the     *)
(* next fetch when it has not, whatever the total was at the fetch.        *)
C38_CurrentTotalDecides ==
    [][DrainedAfterDrift =>
          /\ LastArg("total_items")' = ChangedTotal
          /\ offset(delegate) >= ChangedTotal =>
                (state' = "Closed" /\ lastRet' = RetNone /\ nCreated' = nCreated)
          /\ offset(delegate) < ChangedTotal =>
                (state' = "Pending" /\ lastRet' = RetPending
                   /\ nCreated' = nCreated + 1)]_vars

\* the page of one item came with total 4; the total changed to 0 before
\* the pull that found the buffer empty, and that pull closed the stream
C38_Witness ==
    /\ state = "Closed" /\ lastRet = RetNone
    /\ Len(pages) = 1 /\ OkItems = <<1>>
    /\ nCreated = 1
    /\ ArgsOf(log, "total_was") = <<4>>
    /\ ArgsOf(log, "total_changed") = <<0>>
    /\ LastArg("total_items") = 0

---------------------------------------------------------------------------
(* Dropping the stream.  The Pending variant owns the boxed future and the *)
(* future owns the delegate, so dropping the stream drops both; no drop    *)
(* glue of the crate runs.  A request that next_page had sent may still be *)
(* answered by the remote side: the answer has no receiver.                *)

\* the future was dropped while its request was in flight
AbandonedFuture == [st |-> "Abandoned", r |-> NoResp]

\* the answer to an abandoned request, received by nobody
DiscardedAnswer(r) == [st |-> "Discarded", r |-> r]

\* drop(stream)
DropStream ==
    /\ state # "Dropped"
    /\ state' = "Dropped"
    /\ delegate' = NoDelegate
    /\ items' = << >>
    /\ future' = IF future.st = "Running" THEN AbandonedFuture ELSE NoFuture
    /\ woken' = FALSE
    /\ UNCHANGED <<source, serde, out, lastRet, pages, log, nCreated, nFinished, idle>>

\* faulty variant: the answer to an abandoned request is still taken over
AnswerAbandonedDelivered ==
    /\ future.st = "Abandoned"
    /\ \E r \in Responses(delegate, NextPageCalls) :
          /\ future' = DiscardedAnswer(r)
          /\ IF r.ok
             THEN /\ log' = Append(log, LogEntry("set_offset", r.n))
                  /\ out' = IF r.n > 0 THEN Append(out, RetOk(1)) ELSE out
             ELSE /\ log' = log
                  /\ out' = Append(out, RetErr(r.err))
    /\ UNCHANGED <<state, delegate, items, woken, source, serde, lastRet, pages,
                   nCreated, nFinished, idle>>

\* the remote side answers a request whose future was dropped
AnswerAbandoned ==
    /\ future.st = "Abandoned"
    /\ \E r \in Responses(delegate, NextPageCalls) : future' = DiscardedAnswer(r)
    /\ UNCHANGED <<state, delegate, items, woken, source, serde, out, lastRet, pages,
                   log, nCreated, nFinished, idle>>

NextDrop ==
    \/ PollRequest
    \/ PollPendingStill
    \/ PollPendingOk
    \/ PollPendingOverflow
    \/ PollPendingEmpty
    \/ PollPendingErr
    \/ PollReadySome
    \/ PollReadyClose
    \/ PollReadyRequest
    \/ PollClosed
    \/ PollIndeterminate
    \/ Respond
    \/ DropStream
    \/ AnswerAbandoned

SpecDrop == Init /\ [][NextDrop]_vars

\* the stream is dropped in this step while a future is held
DroppedWhilePending == state = "Pending" /\ state' = "Dropped"

---------------------------------------------------------------------------
\* a fetch of an IssueSearchDelegate stream resolved Ok in this step
IssueSearchPageTaken ==
    delegate.kind = "IssueSearch" /\ Len(pages') = Len(pages) + 1

\* delegate.offset() + items.len() as the mathematical sum
OffsetSum == offset(delegate) + Len(LastPage')

\* self.params.per_page * self.params.page as the mathematical product
OffsetProduct == delegate.per_page * delegate.page

(* C40: no overflow in the offset bookkeeping.  For a stream over          *)
(* IssueSearchDelegate (per_page >= 1), the sum offset() + page length     *)
(* computed when a fetch resolves Ok and the product per_page * page       *)
(* computed by offset() are at most usize::MAX in every reachable state,   *)
(* also after the past-the-end page was stored.                            *)
C40_NoOverflow ==
    /\ [](delegate.kind = "IssueSearch" => OffsetProduct <= UsizeMax)
    /\ [][IssueSearchPageTaken => OffsetSum <= UsizeMax]_vars
    /\ [](lastRet # RetPanic(171))

===========================================================================
